---- MODULE Spec2Model ----
(***************************************************************************)
(* Audax planner (src/src/App.tsx): the plan generator and the plan state  *)
(* manager of the App component.                                           *)
(*                                                                         *)
(* Time.  A JavaScript Date is an instant; here an instant is the number   *)
(* of hours since 2025-09-01T00:00:00Z.  Every instant the program builds  *)
(* is a whole number of hours (UTC midnights, local midnights of zones     *)
(* with whole-hour offsets), so nothing is lost by the unit.  A calendar   *)
(* day is counted in days since 2025-09-01 (day 0, a Monday).              *)
(***************************************************************************)
EXTENDS Integers, Sequences, FiniteSets, TLC

VARIABLES
    tz,       \* the time zone the browser runs in (fixed for a run)
    plans,    \* useState<DayPlan[]>  (App.tsx:361)
    history,  \* useState<HistoryItem[]>, newest first  (App.tsx:362)
    now,      \* handler calls so far; Date.now() of a call is its number
    lastOp,   \* the handler call that produced this state
    storage,  \* localStorage: what getItem returns for each of the two keys
    pc,       \* the effects still to run after the last render, in order
    queued,   \* state updates the load effect asked for, not yet rendered
    startup,  \* what localStorage held when the component mounted
    alerted,  \* whether the last call showed an alert()
    pct,      \* the percentage the last rendering of a day showed
    file      \* the file exportJSON downloaded last

vars == <<tz, plans, history, now, lastOp,
          storage, pc, queued, startup, alerted, pct, file>>

\* ---------------------------------------------------------------- bounds
MaxOps == 2     \* handler calls in one run
MaxWeek == 12   \* weeks over which phaseName is tabulated
MaxTasks == 200 \* tasks of the longest day completion is computed for
SmallDay == 12  \* days up to this length are taken with every count of done tasks

\* ------------------------------------------------------------- constants
HoursPerDay == 24      \* 1000*60*60*24 ms
DaysPerWeek == 7
MicroTargetDefault == 10

START == 17 * HoursPerDay    \* new Date("2025-09-18") = 2025-09-18T00:00Z
RACE  == 83 * HoursPerDay    \* new Date("2025-11-23") = 2025-11-23T00:00Z

Undefined == -1              \* an absent numeric field
UndefinedText == "undefined" \* an absent text field

\* ------------------------------------------------------------ time zones
TimeZones == {"UTC", "Europe/Warsaw"}

\* End of daylight saving time in autumn 2025: 2025-10-26T01:00Z.
WarsawDstEnd == 55 * HoursPerDay + 1

\* Hours to add to an instant to get the zone's wall clock at that instant.
Offset(z, t) ==
    CASE z = "UTC" -> 0
      [] z = "Europe/Warsaw" -> IF t < WarsawDstEnd THEN 2 ELSE 1

Offsets(z) ==
    CASE z = "UTC" -> {0}
      [] z = "Europe/Warsaw" -> {2, 1}

\* The local calendar day of an instant.
LocalDay(z, t) == (t + Offset(z, t)) \div HoursPerDay

\* setHours(0,0,0,0): the instant at which local day D starts.
LocalMidnight(z, D) ==
    CHOOSE t \in {HoursPerDay * D - o : o \in Offsets(z)} :
        t + Offset(z, t) = HoursPerDay * D

\* Date.prototype.getDay in local time: Sunday = 0 ... Saturday = 6.
GetDay(z, t) == (LocalDay(z, t) + 1) % DaysPerWeek

\* date-fns isSameDay: both instants fall on the same local day.
isSameDay(z, a, b) == LocalDay(z, a) = LocalDay(z, b)

\* date-fns eachDayOfInterval: local midnights from the start's local day
\* while they are not after the end instant.
RECURSIVE EachDayFrom(_, _, _)
EachDayFrom(z, D, endTime) ==
    IF LocalMidnight(z, D) > endTime THEN <<>>
    ELSE <<LocalMidnight(z, D)>> \o EachDayFrom(z, D + 1, endTime)

eachDayOfInterval(z, start, end) == EachDayFrom(z, LocalDay(z, start), end)

\* ------------------------------------------------------------- ISO dates
Pad2(n) == IF n < 10 THEN "0" \o ToString(n) ELSE ToString(n)

\* The UTC calendar date (yyyy-mm-dd) of UTC day n, for Aug..Dec 2025.
IsoOfDay(n) ==
    CASE n < 0  -> "2025-08-" \o Pad2(n + 32)
      [] n >= 0  /\ n < 30 -> "2025-09-" \o Pad2(n + 1)
      [] n >= 30 /\ n < 61 -> "2025-10-" \o Pad2(n - 29)
      [] n >= 61 /\ n < 91 -> "2025-11-" \o Pad2(n - 60)
      [] n >= 91 -> "2025-12-" \o Pad2(n - 90)

\* iso(d) = d.toISOString().slice(0,10): the UTC date of the instant.
iso(t) == IsoOfDay(t \div HoursPerDay)

\* -------------------------------------------------- helpers for the plan
\* Math.floor((+d - +START) / (1000*60*60*24) / 7) + 1; \div rounds down,
\* as Math.floor does, also for a negative difference.
weekIndex(t) == (t - START) \div (HoursPerDay * DaysPerWeek) + 1

PhaseBase     == "BASE (stabilizacja bolu)"
PhaseBuild    == "BUILD (VO2/dynamika + objetosc)"
PhaseSpecific == "SPECIFIC (ultra + trening jelit)"
PhaseTaper    == "TAPER (zmniejszanie objetosci)"

\* phaseName with the BUILD bucket closed one week early.
phaseName_shortBuild(week) ==
    IF week <= 3 THEN PhaseBase
    ELSE IF week < 6 THEN PhaseBuild
    ELSE IF week <= 8 THEN PhaseSpecific
    ELSE PhaseTaper

phaseName(week) ==
    IF week <= 3 THEN PhaseBase
    ELSE IF week <= 6 THEN PhaseBuild
    ELSE IF week <= 8 THEN PhaseSpecific
    ELSE PhaseTaper

\* TIPS[name]: every entry of the table holds two tips; their text is
\* content, kept here as the entry's name and the tip's position.
TIPS(name) == <<name \o " /1", name \o " /2">>
NoTips == <<>>     \* tips: undefined

Item(label, tips) == [label |-> label, tips |-> tips]

\* gymFor(week, dow): labels are shortened to their exercise and dose.
gymFor(week, dow) ==
    IF dow \notin {0, 2, 4} THEN <<>>
    ELSE IF week <= 3 THEN <<
        Item("McGill Big 3 - curl-up 3x8-10, side-plank 3x15-20 s, bird-dog 3x6-8", TIPS("McGill Big 3")),
        Item("Glute bridge 3x12-15 (pauza 2 s)", TIPS("Glute bridge")),
        Item("Hip-hinge drill 3x10", TIPS("Hip-hinge drill")),
        Item("Hamstring sliders 3x8-10 (wolny ekscentryk)", TIPS("Hamstring sliders")),
        Item("Pallof press 3x12/str.", TIPS("Pallof press")) >>
    ELSE IF week <= 6 THEN <<
        Item("RDL 4x6-8 (RPE 6-7)", TIPS("RDL")),
        Item("Split squat 3x8/str.", TIPS("Split squat")),
        Item("Wioslowanie 3x10", TIPS("Wioslowanie")),
        Item("Trap-bar deadlift 3x5 (opc., bol <=3/10)", TIPS("Trap-bar deadlift")),
        Item("Dead bug 3x8/str.", TIPS("Dead bug")),
        Item("Side-plank 3x25-30 s", TIPS("Side-plank")) >>
    ELSE IF week <= 8 THEN
        IF dow = 2 THEN <<
            Item("RDL 3x5 (RPE 6)", TIPS("RDL")),
            Item("Goblet squat 3x8", NoTips),
            Item("Wioslowanie 3x10", TIPS("Wioslowanie")),
            Item("McGill Big 3 mix 10-12'", NoTips) >>
        ELSE <<
            Item("RDL 3x5 (RPE 6)", TIPS("RDL")),
            Item("McGill Big 3 mix 10' / Pallof", NoTips) >>
    ELSE <<
        Item("Technika: lekkie RDL 2x5", NoTips),
        Item("Core 8-10' McGill / anti-rotacje (bez DOMS)", NoTips) >>

\* bikeFor(week, dow): <<>> stands for null, <<item>> for a session.
bikeFor(week, dow) ==
    IF week <= 3 THEN
        CASE dow = 1 -> <<Item("Z2 60-90' + kadencja mieszana", TIPS("Z2 jazda"))>>
          [] dow = 3 -> <<Item("Z2 60-90'; co 10' wstan 10-20 s.", TIPS("Z2 jazda"))>>
          [] dow = 5 -> <<Item("Z2 dlugi 90-120' (tyg. 3: 120-150').", TIPS("Z2 jazda"))>>
          [] dow = 6 -> <<Item("Opcjonalny recovery 45-60' Z1-Z2 / spacer 45'.", NoTips)>>
          [] OTHER -> <<>>
    ELSE IF week <= 6 THEN
        CASE dow = 1 -> <<Item("VO2max: 5x3' @110-120% FTP / alternatywa 2x(10x30/30)", TIPS("VO2max") \o TIPS("30/30"))>>
          [] dow = 3 -> <<Item("Tempo/technika 60-90' + 6-8x10-15 s sprintow", TIPS("Tempo/technika") \o TIPS("Sprinty"))>>
          [] dow = 5 -> <<Item("Z2 dlugi 3-4 h.", TIPS("Z2 jazda"))>>
          [] dow = 6 -> <<Item("Back-to-back: 2-3 h Z2 (jesli sob. >=3 h).", TIPS("Z2 jazda"))>>
          [] OTHER -> <<>>
    ELSE IF week <= 8 THEN
        CASE dow = 1 -> <<Item("Over-unders: 3x10', p. 5' (lub VO2 4x5')", TIPS("Over-unders"))>>
          [] dow = 3 -> <<Item("Nocny/switny 2-3 h - test oswietlenia/ubioru; 10x15 s sprint.", TIPS("Tempo/technika") \o TIPS("Sprinty"))>>
          [] dow = 5 -> <<Item("Dlugi 5-6 h; zywienie 60-90(100+) g/h.", TIPS("Z2 jazda"))>>
          [] dow = 6 -> <<Item("Back-to-back: 3-4 h Z2 (tydzien po dlugim).", TIPS("Z2 jazda"))>>
          [] OTHER -> <<>>
    ELSE
        CASE dow = 1 -> <<Item("Z2 60-75' z 3x3' tempo. Lekko.", TIPS("Z2 jazda"))>>
          [] dow = 3 -> <<Item("Krotko 45-60' Z2. Sprzet check.", TIPS("Z2 jazda"))>>
          [] dow = 5 -> <<Item("Z2 90' z przebiezkami 30-60 s.", TIPS("Z2 jazda"))>>
          [] dow = 6 -> <<Item("Odzyskanie: 45' spacer/lekki rozjazd.", NoTips)>>
          [] OTHER -> <<>>

mobility ==
    << "Zginacze biodra 2x45 s/str.",
       "T-spine na walku + piersiowe 2x45 s",
       "Oddech przeponowy 5 glebokich oddechow" >>

microBreaks == << "Mikro-przerwy (co 45-60 min, 2-4')" >>

handRehab(dow) ==
    IF dow \in {0, 3, 5} THEN
        << "Nerwoglajding mediany 2x5-10 (bez bolu)",
           "Chwyt izometryczny 3x30-45 s",
           "Ekstensja nadgarstka 3x15" >>
    ELSE << "Nerwoglajding mediany 1x5-10 (lekko)" >>

\* bt.includes("5-6 h") || bt.includes("3-4 h"): the bike labels of the
\* table above that hold one of the two substrings.
LongBikeLabels ==
    { "Z2 dlugi 3-4 h.",
      "Dlugi 5-6 h; zywienie 60-90(100+) g/h.",
      "Back-to-back: 3-4 h Z2 (tydzien po dlugim)." }

\* nutrition(week, dow, bike): the base text is determined by the carbohydrate
\* band (carb and inride are set together) and the nitrate extra.
nutrition(week, dow, bike) ==
    LET bt == IF bike = <<>> THEN "" ELSE bike[1].label
        long == bt \in LongBikeLabels
        carb == IF long THEN "8-10 g/kg"
                ELSE IF dow \in {1, 3} THEN "6-8 g/kg"
                ELSE IF dow \in {5, 6} THEN "7-9 g/kg"
                ELSE "5-6 g/kg"
        extra == IF week = 7 \/ week = 8 THEN " Nitrany (burak)" ELSE ""
    IN  << "Wegle: " \o carb \o "; Bialko: 1.6-2.0 g/kg." \o extra,
           "Meal prep" >>

sleep == << "Sen 7.5-9 h", "Drzemka 20-30' (opc.)", "HR spocz., masa, nastroj - odnotowane" >>

\* `${date}_${category}_${suffix}`
TaskId(date, category, suffix) == date \o "_" \o category \o "_" \o suffix

Labelled(seq, category, withTips) ==
    [i \in 1..Len(seq) |->
        [label |-> IF withTips THEN seq[i].label ELSE seq[i],
         category |-> category,
         tips |-> IF withTips THEN seq[i].tips ELSE NoTips]]

\* One DayPlan of generateInitialPlan, for the day object d (an instant).
GenerateDay(z, d) ==
    LET w == weekIndex(d)
        dow == IF GetDay(z, d) = 0 THEN 6 ELSE GetDay(z, d) - 1
        bike == bikeFor(w, dow)
        pushed == Labelled(gymFor(w, dow), "GYM", TRUE)
                  \o Labelled(bike, "BIKE", TRUE)
                  \o Labelled(mobility, "MOB", FALSE)
                  \o Labelled(microBreaks, "MICRO", FALSE)
                  \o Labelled(handRehab(dow), "HAND", FALSE)
                  \o Labelled(nutrition(w, dow, bike), "NUTR", FALSE)
                  \o Labelled(sleep, "SLEEP", FALSE)
        all == [i \in 1..Len(pushed) |->
                  [id |-> TaskId(iso(d), pushed[i].category, ToString(i - 1)),
                   label |-> pushed[i].label,
                   done |-> FALSE,
                   category |-> pushed[i].category,
                   tips |-> pushed[i].tips]]
        NotGym(t) == t.category # "GYM"
        tasks == IF isSameDay(z, d, RACE) THEN SelectSeq(all, NotGym) ELSE all
    IN  [date |-> iso(d), phase |-> phaseName(w), week |-> w, tasks |-> tasks,
         notes |-> "", microDone |-> 0, microTarget |-> MicroTargetDefault,
         sleepHours |-> Undefined, hrRest |-> Undefined, bodyMass |-> Undefined,
         napsNote |-> UndefinedText]

generateInitialPlan(z) ==
    LET days == eachDayOfInterval(z, START, RACE)
    IN  [i \in 1..Len(days) |-> GenerateDay(z, days[i])]

\* --------------------------------------------------------- array helpers
\* Array.prototype.find: the index of the first element with the date, or 0.
FindDay(prev, date) ==
    LET S == {i \in 1..Len(prev) : prev[i].date = date}
    IN  IF S = {} THEN 0 ELSE CHOOSE i \in S : \A j \in S : i <= j

\* Array.prototype.find on a task list: the first task with the id, or 0.
FindTask(tasks, id) ==
    LET S == {i \in 1..Len(tasks) : tasks[i].id = id}
    IN  IF S = {} THEN 0 ELSE CHOOSE i \in S : \A j \in S : i <= j

\* tasks.filter(t => t.id !== id)
WithoutId(tasks, id) ==
    LET Keep(t) == t.id # id
    IN  SelectSeq(tasks, Keep)

\* HistoryItem with the date and the detail in each other's place.
HistoryItem_swapped(ts, date, action, detail) ==
    [ts |-> ts, date |-> detail, action |-> action, detail |-> date]

HistoryItem(ts, date, action, detail) ==
    [ts |-> ts, date |-> date, action |-> action, detail |-> detail]

\* Prepend that pushes the entry at the end of the log.
Prepend_atEnd(item, h) == h \o <<item>>

\* h => [item, ...h]
Prepend(item, h) == <<item>> \o h

\* ------------------------------------------------------- JSON documents
\* A JSON text is kept as the value it denotes: an array is a sequence, an
\* object is a function from the keys it has to their values.  A property
\* whose value is undefined has no key in the text JSON.stringify writes,
\* and reading a key an object lacks gives undefined.

\* JSON.stringify of a Task: `tips` is written only when it is defined.
stringifyTask(t) ==
    IF t.tips = NoTips
    THEN [id |-> t.id, label |-> t.label, done |-> t.done, category |-> t.category]
    ELSE [id |-> t.id, label |-> t.label, done |-> t.done, category |-> t.category,
          tips |-> t.tips]

\* JSON.stringify of a DayPlan: the four metrics that may be undefined are
\* written only when they are defined.
stringifyDay(p) ==
    LET core == [date |-> p.date, phase |-> p.phase, week |-> p.week,
                 tasks |-> [i \in 1..Len(p.tasks) |-> stringifyTask(p.tasks[i])],
                 notes |-> p.notes, microDone |-> p.microDone,
                 microTarget |-> p.microTarget]
        kept == {k \in {"sleepHours", "hrRest", "bodyMass"} : p[k] # Undefined}
                \cup {k \in {"napsNote"} : p[k] # UndefinedText}
    IN  IF kept = {} THEN core
        ELSE [k \in DOMAIN core \cup kept |->
                 IF k \in kept THEN p[k] ELSE core[k]]

\* JSON.stringify(plans)
stringifyPlans(ps) == [i \in 1..Len(ps) |-> stringifyDay(ps[i])]

\* JSON.stringify(history): every field of a HistoryItem is defined.
stringifyHistory(h) == [i \in 1..Len(h) |-> [k \in DOMAIN h[i] |-> h[i][k]]]

\* obj[k] of a parsed object: undefined when the key is missing.
Read(obj, k, undefined) == IF k \in DOMAIN obj THEN obj[k] ELSE undefined

\* A parsed Task as the program reads it.
parseTask(o) ==
    [id |-> o.id, label |-> o.label, done |-> o.done, category |-> o.category,
     tips |-> Read(o, "tips", NoTips)]

\* A parsed DayPlan as the program reads it.
parseDay(o) ==
    [date |-> o.date, phase |-> o.phase, week |-> o.week,
     tasks |-> [i \in 1..Len(o.tasks) |-> parseTask(o.tasks[i])],
     notes |-> o.notes, microDone |-> o.microDone, microTarget |-> o.microTarget,
     sleepHours |-> Read(o, "sleepHours", Undefined),
     hrRest |-> Read(o, "hrRest", Undefined),
     bodyMass |-> Read(o, "bodyMass", Undefined),
     napsNote |-> Read(o, "napsNote", UndefinedText)]

\* JSON.parse of a text that holds an array of DayPlans.
parsePlans(text) == [i \in 1..Len(text) |-> parseDay(text[i])]

\* JSON.parse of a text that holds an array of HistoryItems.
parseHistory(text) ==
    [i \in 1..Len(text) |->
        [ts |-> text[i].ts, date |-> text[i].date,
         action |-> text[i].action, detail |-> text[i].detail]]

\* ----------------------------------------------------------- localStorage
STORAGE_KEY == "audaxPlanner_v1_1"
HISTORY_KEY == "audaxPlanner_v1_1_history"

\* getItem gives null for a key that was never set, here the empty tuple;
\* a stored text is the one-element tuple holding it.
NoItem == <<>>
Stored(text) == <<text>>

\* setItem(key, JSON.stringify(ps)) on a key that holds `item`: the new item
\* is the serialized array; a day whose text equals the one the key holds at
\* that place is taken from there (equal values are kept once).
Written(item, ps) ==
    IF item = NoItem THEN Stored(stringifyPlans(ps))
    ELSE Stored([i \in 1..Len(ps) |->
                    IF i <= Len(item[1]) /\ item[1][i] = stringifyDay(ps[i])
                    THEN item[1][i] ELSE stringifyDay(ps[i])])

\* SaveEffects in which the save effect of history never runs.
SaveEffects_plansOnly(plansReplaced, historyReplaced) ==
    storage' = [storage EXCEPT
                  ![STORAGE_KEY] = IF plansReplaced
                                   THEN Written(@, plans') ELSE @]

\* The save effects (App.tsx:373-374) that run after a render in which the
\* plans array, the history array, or both were replaced.
SaveEffects(plansReplaced, historyReplaced) ==
    storage' = [storage EXCEPT
                  ![STORAGE_KEY] = IF plansReplaced
                                   THEN Written(@, plans') ELSE @,
                  ![HISTORY_KEY] = IF historyReplaced
                                   THEN Stored(stringifyHistory(history')) ELSE @]

\* ------------------------------------------------- the plans updaters
\* TogglePlans that flips the flag instead of setting it.
TogglePlans_flip(prev, dateISO, id, checked) ==
    [i \in 1..Len(prev) |->
        IF prev[i].date # dateISO THEN prev[i]
        ELSE [prev[i] EXCEPT !.tasks =
                [k \in 1..Len(prev[i].tasks) |->
                    IF prev[i].tasks[k].id = id
                    THEN [prev[i].tasks[k] EXCEPT !.done = ~prev[i].tasks[k].done]
                    ELSE prev[i].tasks[k]]]]

\* toggleTask's updater of plans.
TogglePlans(prev, dateISO, id, checked) ==
    [i \in 1..Len(prev) |->
        IF prev[i].date # dateISO THEN prev[i]
        ELSE [prev[i] EXCEPT !.tasks =
                [k \in 1..Len(prev[i].tasks) |->
                    IF prev[i].tasks[k].id = id
                    THEN [prev[i].tasks[k] EXCEPT !.done = checked]
                    ELSE prev[i].tasks[k]]]]

\* resetDay's updater of plans.
ResetPlans(prev, dateISO) ==
    [i \in 1..Len(prev) |->
        IF prev[i].date # dateISO THEN prev[i]
        ELSE [prev[i] EXCEPT !.tasks =
                [k \in 1..Len(prev[i].tasks) |->
                    [prev[i].tasks[k] EXCEPT !.done = FALSE]]]]

\* onDelete's updater of plans.
DeletePlans(prev, dateISO, id) ==
    [i \in 1..Len(prev) |->
        IF prev[i].date # dateISO THEN prev[i]
        ELSE [prev[i] EXCEPT !.tasks = WithoutId(prev[i].tasks, id)]]

\* Whether moveTask's updater gets past its two early returns.
MoveTaskMoves(prev, fromISO, toISO, id) ==
    /\ FindDay(prev, fromISO) # 0
    /\ FindDay(prev, toISO) # 0
    /\ FindTask(prev[FindDay(prev, fromISO)].tasks, id) # 0

\* moveTask's updater of plans once it moves; suffix is the random part of
\* the minted id.
MoveTaskPlans(prev, fromISO, toISO, id, suffix) ==
    LET src == prev[FindDay(prev, fromISO)]
        dst == prev[FindDay(prev, toISO)]
        task == src.tasks[FindTask(src.tasks, id)]
        newSrc == [src EXCEPT !.tasks = WithoutId(src.tasks, id)]
        newTask == [task EXCEPT !.id = TaskId(toISO, task.category, suffix)]
        newDst == [dst EXCEPT !.tasks = Append(dst.tasks, newTask)]
    IN  [i \in 1..Len(prev) |->
            IF prev[i].date = fromISO THEN newSrc
            ELSE IF prev[i].date = toISO THEN newDst
            ELSE prev[i]]

\* MoveDayMoves without the check of the destination.
MoveDayMoves_noDestinationCheck(prev, fromISO, toISO) ==
    FindDay(prev, fromISO) # 0

\* Whether moveWholeDay's updater gets past its early return.
MoveDayMoves(prev, fromISO, toISO) ==
    /\ FindDay(prev, fromISO) # 0
    /\ FindDay(prev, toISO) # 0

\* MoveDayPlans that puts the moved tasks in front of the destination's.
MoveDayPlans_prepend(prev, fromISO, toISO, suffixes) ==
    LET src == prev[FindDay(prev, fromISO)]
        dst == prev[FindDay(prev, toISO)]
        moved == [k \in 1..Len(src.tasks) |->
                    [src.tasks[k] EXCEPT
                        !.id = TaskId(toISO, src.tasks[k].category, suffixes[k])]]
        newSrc == [src EXCEPT !.tasks = <<>>]
        newDst == [dst EXCEPT !.tasks = moved \o dst.tasks]
    IN  [i \in 1..Len(prev) |->
            IF prev[i].date = fromISO THEN newSrc
            ELSE IF prev[i].date = toISO THEN newDst
            ELSE prev[i]]

\* MoveDayPlans that deletes the emptied source day from the collection.
MoveDayPlans_dropSource(prev, fromISO, toISO, suffixes) ==
    LET src == prev[FindDay(prev, fromISO)]
        dst == prev[FindDay(prev, toISO)]
        moved == [k \in 1..Len(src.tasks) |->
                    [src.tasks[k] EXCEPT
                        !.id = TaskId(toISO, src.tasks[k].category, suffixes[k])]]
        newDst == [dst EXCEPT !.tasks = dst.tasks \o moved]
        NotSource(p) == p.date # fromISO
    IN  SelectSeq([i \in 1..Len(prev) |->
                      IF prev[i].date = toISO THEN newDst ELSE prev[i]],
                  NotSource)

\* moveWholeDay's updater of plans once it moves; suffixes[k] is the random
\* part of the id minted for the k-th task.
MoveDayPlans(prev, fromISO, toISO, suffixes) ==
    LET src == prev[FindDay(prev, fromISO)]
        dst == prev[FindDay(prev, toISO)]
        moved == [k \in 1..Len(src.tasks) |->
                    [src.tasks[k] EXCEPT
                        !.id = TaskId(toISO, src.tasks[k].category, suffixes[k])]]
        newSrc == [src EXCEPT !.tasks = <<>>]
        newDst == [dst EXCEPT !.tasks = dst.tasks \o moved]
    IN  [i \in 1..Len(prev) |->
            IF prev[i].date = fromISO THEN newSrc
            ELSE IF prev[i].date = toISO THEN newDst
            ELSE prev[i]]

\* SleepCard.setField's updater: {...p, ...patch} with a one-field patch.
SetFieldPlans(prev, date, field, value) ==
    [i \in 1..Len(prev) |->
        IF prev[i].date # date THEN prev[i]
        ELSE [prev[i] EXCEPT ![field] = value]]

\* ---------------------------------------------------------- input sets
\* The days the handlers are called on: the first and the last of the
\* collection, and a date the collection does not hold.
FirstDate == IF plans = <<>> THEN "" ELSE plans[1].date
LastDate == IF plans = <<>> THEN "" ELSE plans[Len(plans)].date
FocusDates == {FirstDate, LastDate}

AbsentDate == ""      \* a cleared date input
DateInputs == FocusDates \cup {AbsentDate}

\* The (from, to) pairs the move handlers are called with.
MovePairs ==
    { <<FirstDate, FirstDate>>, <<FirstDate, LastDate>>, <<LastDate, FirstDate>>,
      <<FirstDate, AbsentDate>>, <<AbsentDate, LastDate>> }

BogusId == "no-such-task"

\* Ids a handler is called with for a day: its last task's, and an id no
\* task carries.
IdInputs(date) ==
    LET i == FindDay(plans, date)
        ts == IF i = 0 THEN <<>> ELSE plans[i].tasks
    IN  {ts[k].id : k \in {Len(ts)} \cap (1..Len(ts))} \cup {BogusId}

\* The label onDelete's closure holds for the task it was rendered for.
LabelOf(date, id) ==
    LET i == FindDay(plans, date)
        k == IF i = 0 THEN 0 ELSE FindTask(plans[i].tasks, id)
    IN  IF k = 0 THEN "(gone)" ELSE plans[i].tasks[k].label

\* The calls of toggleTask: both ways with the last task of the first day,
\* checking the last task of the last day, unchecking an id no task carries,
\* and checking on a date that has no day.
ToggleCalls ==
    { <<FirstDate, BogusId, FALSE>>, <<AbsentDate, BogusId, TRUE>> }
        \cup { <<d, id, TRUE>> : d \in {LastDate}, id \in IdInputs(LastDate) \ {BogusId} }
        \cup { <<d, id, b>> : d \in {FirstDate}, id \in IdInputs(FirstDate) \ {BogusId},
                               b \in BOOLEAN }

\* The calls of onDelete.
DeleteCalls ==
    { <<FirstDate, id>> : id \in IdInputs(FirstDate) }
        \cup { <<LastDate, id>> : id \in IdInputs(LastDate) \ {BogusId} }
        \cup { <<AbsentDate, BogusId>> }

\* The calls of moveTask: the day's last task for every pair, and an id no
\* task carries between the first and the last day.
MoveTaskCalls ==
    UNION { { <<ab[1], ab[2], id>> : id \in IdInputs(ab[1]) \ {BogusId} } :
                ab \in MovePairs }
        \cup { <<FirstDate, LastDate, BogusId>>, <<AbsentDate, LastDate, BogusId>> }

\* Math.random().toString(36).slice(2,8)
RandSuffixes == {"k3f9x2", "p0q8zd"}

\* The suffixes drawn for the tasks of one moveWholeDay: all different, or
\* the same value drawn every time.
RandStreams == {"fresh", "repeat"}
StreamSuffix(stream, k) ==
    IF stream = "repeat" THEN "k3f9x2" ELSE "m" \o ToString(k) \o "w7"

\* The day whose cards are on screen when a metric is edited.
RenderedDate == FirstDate

\* The boxes of the micro-breaks card that get clicked.
MicroBoxes == {0, 1}

SleepPatches == { <<"sleepHours", 7>>, <<"napsNote", "20' o 14:00">> }

\* ------------------------------------------------------------- handlers
Op(name, date, to, id) == [op |-> name, date |-> date, to |-> to, id |-> id]

\* Nothing queued by the load effect.
NothingQueued == [plans |-> NoItem, history |-> NoItem]

\* The page is rendered with every state update applied and every effect run.
Idle == pc = <<>> /\ queued = NothingQueued

\* A user event on the rendered, idle page; the clock has advanced since
\* the last.
Event(op) ==
    /\ Idle
    /\ now < MaxOps
    /\ now' = now + 1
    /\ lastOp' = op
    /\ UNCHANGED <<tz, pc, queued, startup>>

\* A call of a handler that shows no alert and downloads nothing.
Called(op) ==
    /\ Event(op)
    /\ alerted' = FALSE
    /\ UNCHANGED <<pct, file>>

toggleTask(dateISO, id, checked) ==
    /\ Called(Op(IF checked THEN "CHECK" ELSE "UNCHECK", dateISO, "", id))
    /\ plans' = TogglePlans(plans, dateISO, id, checked)
    /\ history' = Prepend(HistoryItem(now', dateISO,
                              IF checked THEN "CHECK" ELSE "UNCHECK", id), history)
    /\ SaveEffects(TRUE, TRUE)

resetDay(dateISO) ==
    /\ Called(Op("RESET_DAY", dateISO, "", ""))
    /\ plans' = ResetPlans(plans, dateISO)
    /\ history' = Prepend(HistoryItem(now', dateISO, "RESET_DAY", "reset"), history)
    /\ SaveEffects(TRUE, TRUE)

\* TaskMenu's onDelete for the task t of the rendered day.
deleteTask(dateISO, id, label) ==
    /\ Called(Op("DELETE_TASK", dateISO, "", id))
    /\ plans' = DeletePlans(plans, dateISO, id)
    /\ history' = Prepend(HistoryItem(now', dateISO, "DELETE_TASK", label), history)
    /\ SaveEffects(TRUE, TRUE)

\* Math.random() is called only on the path that mints an id.  An updater
\* that returns prev replaces no array, so no save effect runs.
moveTask(fromISO, toISO, id) ==
    /\ Called(Op("MOVE_TASK", fromISO, toISO, id))
    /\ IF fromISO = toISO \/ ~MoveTaskMoves(plans, fromISO, toISO, id)
       THEN UNCHANGED <<plans, history, storage>>
       ELSE LET src == plans[FindDay(plans, fromISO)]
                task == src.tasks[FindTask(src.tasks, id)]
            IN  /\ \E suffix \in RandSuffixes :
                      plans' = MoveTaskPlans(plans, fromISO, toISO, id, suffix)
                /\ history' = Prepend(HistoryItem(now', toISO, "MOVE_TASK",
                                          task.label \o " <- " \o fromISO), history)
                /\ SaveEffects(TRUE, TRUE)

moveWholeDay(fromISO, toISO) ==
    /\ Called(Op("MOVE_DAY", fromISO, toISO, ""))
    /\ IF fromISO = toISO \/ ~MoveDayMoves(plans, fromISO, toISO)
       THEN UNCHANGED <<plans, history, storage>>
       ELSE /\ \E stream \in RandStreams :
                  plans' = MoveDayPlans(plans, fromISO, toISO,
                            [k \in 1..Len(plans[FindDay(plans, fromISO)].tasks) |->
                                StreamSuffix(stream, k)])
            /\ history' = Prepend(HistoryItem(now', toISO, "MOVE_DAY",
                                      "zadania z " \o fromISO), history)
            /\ SaveEffects(TRUE, TRUE)

\* SleepCard: one input changed on the rendered day.
setField(date, field, value) ==
    /\ FindDay(plans, date) # 0
    /\ Called(Op("SET_FIELD", date, "", field))
    /\ plans' = SetFieldPlans(plans, date, field, value)
    /\ UNCHANGED history
    /\ SaveEffects(TRUE, FALSE)

\* MicroBreaksCard.toggle(idx) on the rendered day, whose microDone is done.
microToggle(date, idx) ==
    LET p == plans[FindDay(plans, date)]
        done == p.microDone
        newDone == IF idx < done THEN idx ELSE idx + 1
    IN  /\ FindDay(plans, date) # 0
        /\ idx < p.microTarget
        /\ Called(Op("MICRO", date, "", "microDone"))
        /\ plans' = SetFieldPlans(plans, date, "microDone", newDone)
        /\ UNCHANGED history
        /\ SaveEffects(TRUE, FALSE)

\* The "Wyczysc" button: setHistory([]).
clearHistory ==
    /\ Called(Op("CLEAR", "", "", ""))
    /\ history' = <<>>
    /\ UNCHANGED plans
    /\ SaveEffects(FALSE, TRUE)

\* ------------------------------------------------------- specification
NoOp == Op("INIT", "", "", "")

\* What is left of a first start on an empty localStorage once the page is
\* idle: the generated plan, on screen and saved.
Init ==
    /\ tz \in TimeZones
    /\ plans = generateInitialPlan(tz)
    /\ history = <<>>
    /\ now = 0
    /\ lastOp = NoOp
    /\ storage = [k \in {STORAGE_KEY, HISTORY_KEY} |->
                    IF k = STORAGE_KEY THEN Stored(stringifyPlans(plans))
                    ELSE Stored(stringifyHistory(history))]
    /\ pc = <<>>
    /\ queued = NothingQueued
    /\ startup = [k \in {STORAGE_KEY, HISTORY_KEY} |-> NoItem]
    /\ alerted = FALSE
    /\ pct = 0
    /\ file = NoItem

ToggleStep == \E c \in ToggleCalls : toggleTask(c[1], c[2], c[3])
ResetStep == \E d \in {FirstDate, AbsentDate} : resetDay(d)
DeleteStep == \E c \in DeleteCalls : deleteTask(c[1], c[2], LabelOf(c[1], c[2]))
MoveTaskStep == \E c \in MoveTaskCalls : moveTask(c[1], c[2], c[3])
MoveDayStep == \E ab \in MovePairs : moveWholeDay(ab[1], ab[2])
SetFieldStep == \E p \in SleepPatches : setField(RenderedDate, p[1], p[2])
MicroStep == \E idx \in MicroBoxes : microToggle(RenderedDate, idx)
ClearStep == clearHistory

Next ==
    \/ ToggleStep
    \/ ResetStep
    \/ DeleteStep
    \/ MoveTaskStep
    \/ MoveDayStep
    \/ SetFieldStep
    \/ MicroStep
    \/ ClearStep

Spec == Init /\ [][Next]_vars

\* -------------------------------------------------------------- snapshots
\* A backup file cut down by hand to one day with two tasks.
OneDayPlans ==
    << [date |-> "2025-09-18", phase |-> PhaseBase, week |-> 1,
        tasks |-> << [id |-> "2025-09-18_MOB_1", label |-> mobility[1],
                      done |-> TRUE, category |-> "MOB", tips |-> NoTips],
                     [id |-> "2025-09-18_SLEEP_10", label |-> sleep[1],
                      done |-> FALSE, category |-> "SLEEP", tips |-> NoTips] >>,
        notes |-> "", microDone |-> 0, microTarget |-> MicroTargetDefault,
        sleepHours |-> Undefined, hrRest |-> Undefined, bodyMass |-> Undefined,
        napsNote |-> UndefinedText] >>

OneEntryLog == << HistoryItem(0, "2025-09-18", "CHECK", "2025-09-18_MOB_1") >>

\* A snapshot of two days: a task with tips, a task done, a metric set, and a
\* day without tasks.
TwoDayPlans ==
    << [date |-> "2025-09-18", phase |-> PhaseBase, week |-> 1,
        tasks |-> << [id |-> "2025-09-18_BIKE_0", label |-> "Z2 60-90'",
                      done |-> FALSE, category |-> "BIKE",
                      tips |-> TIPS("Z2 jazda")],
                     [id |-> "2025-09-18_MOB_1", label |-> mobility[1],
                      done |-> TRUE, category |-> "MOB", tips |-> NoTips] >>,
        notes |-> "", microDone |-> 2, microTarget |-> MicroTargetDefault,
        sleepHours |-> 8, hrRest |-> Undefined, bodyMass |-> Undefined,
        napsNote |-> UndefinedText],
       [date |-> "2025-09-19", phase |-> PhaseBase, week |-> 1,
        tasks |-> <<>>,
        notes |-> "", microDone |-> 0, microTarget |-> MicroTargetDefault,
        sleepHours |-> Undefined, hrRest |-> Undefined, bodyMass |-> Undefined,
        napsNote |-> UndefinedText] >>

\* The logs the snapshot is stored with.
StoredLogs == { <<>>, OneEntryLog }

\* ---------------------------------------------------------------- startup
\* The effects of App that touch the planner state, in declaration order
\* (App.tsx:367, 373, 374).
MountEffects == <<"load", "savePlans", "saveHistory">>

Mounted == Op("MOUNT", "", "", "")

\* localStorage with p under STORAGE_KEY and h under HISTORY_KEY.
Storage(p, h) ==
    [k \in {STORAGE_KEY, HISTORY_KEY} |-> IF k = STORAGE_KEY THEN p ELSE h]

\* What localStorage holds when the page is opened: nothing, a snapshot of
\* an earlier session with its log, or the snapshot alone.
StartupStorages ==
    { Storage(NoItem, NoItem), Storage(Stored(stringifyPlans(TwoDayPlans)), NoItem) }
        \cup { Storage(Stored(stringifyPlans(TwoDayPlans)),
                       Stored(stringifyHistory(l))) : l \in StoredLogs }

\* The zone the planner's owner opens it in.
BootZones == {"Europe/Warsaw"}

\* The component after its first render: useState([]) twice, no effect run.
InitBoot ==
    /\ tz \in BootZones
    /\ plans = <<>>
    /\ history = <<>>
    /\ now = 0
    /\ lastOp = Mounted
    /\ storage \in StartupStorages
    /\ startup = storage
    /\ pc = MountEffects
    /\ queued = NothingQueued
    /\ alerted = FALSE
    /\ pct = 0
    /\ file = NoItem

\* The load effect (App.tsx:367-372): setPlans and setHistory are queued for
\* the next render.
loadEffect ==
    LET saved == storage[STORAGE_KEY]
        savedHistory == storage[HISTORY_KEY]
    IN  /\ pc # <<>> /\ Head(pc) = "load"
        /\ queued' = [plans |-> IF saved # NoItem
                                THEN Stored(parsePlans(saved[1]))
                                ELSE Stored(generateInitialPlan(tz)),
                      history |-> IF savedHistory # NoItem
                                  THEN Stored(parseHistory(savedHistory[1]))
                                  ELSE NoItem]
        /\ pc' = Tail(pc)
        /\ UNCHANGED <<tz, plans, history, now, lastOp, storage, startup,
                       alerted, pct, file>>

\* The save effect of plans (App.tsx:373).
savePlansEffect ==
    /\ pc # <<>> /\ Head(pc) = "savePlans"
    /\ storage' = [storage EXCEPT
                      ![STORAGE_KEY] = Written(@, plans)]
    /\ pc' = Tail(pc)
    /\ UNCHANGED <<tz, plans, history, now, lastOp, queued, startup,
                   alerted, pct, file>>

\* The save effect of history (App.tsx:374).
saveHistoryEffect ==
    /\ pc # <<>> /\ Head(pc) = "saveHistory"
    /\ storage' = [storage EXCEPT
                      ![HISTORY_KEY] = Stored(stringifyHistory(history))]
    /\ pc' = Tail(pc)
    /\ UNCHANGED <<tz, plans, history, now, lastOp, queued, startup,
                   alerted, pct, file>>

\* The render React runs for the queued updates once the effects of the
\* last one are through; the save effect of each replaced array follows.
rerender ==
    /\ pc = <<>> /\ queued # NothingQueued
    /\ plans' = IF queued.plans # NoItem THEN queued.plans[1] ELSE plans
    /\ history' = IF queued.history # NoItem THEN queued.history[1] ELSE history
    /\ pc' = (IF queued.plans # NoItem THEN <<"savePlans">> ELSE <<>>)
              \o (IF queued.history # NoItem THEN <<"saveHistory">> ELSE <<>>)
    /\ queued' = NothingQueued
    /\ UNCHANGED <<tz, now, lastOp, storage, startup, alerted, pct, file>>

LoadStep == loadEffect
SavePlansStep == savePlansEffect
SaveHistoryStep == saveHistoryEffect
RerenderStep == rerender

NextBoot ==
    \/ LoadStep
    \/ SavePlansStep
    \/ SaveHistoryStep
    \/ RerenderStep
    \/ Next

SpecBoot == InitBoot /\ [][NextBoot]_vars

\* ------------------------------------------------------------ completion
\* plans.find(p => p.date === date): undefined, here the empty tuple, or the
\* DayPlan, here the one-element tuple holding it.
dayPlanOf(ps, date) ==
    IF FindDay(ps, date) = 0 THEN <<>> ELSE <<ps[FindDay(ps, date)]>>

\* Math.round(num / den) for num >= 0 and den > 0: the nearest integer, a
\* half going up.
MathRound(num, den) == (2 * num + den) \div (2 * den)

\* completion that cuts the fraction off.
completion_floor(p) ==
    IF p = <<>> \/ Len(p[1].tasks) = 0 THEN 0
    ELSE (100 * Cardinality({k \in 1..Len(p[1].tasks) : p[1].tasks[k].done}))
            \div Len(p[1].tasks)

completion(p) ==
    IF p = <<>> \/ Len(p[1].tasks) = 0 THEN 0
    ELSE MathRound(100 * Cardinality({k \in 1..Len(p[1].tasks) : p[1].tasks[k].done}),
                   Len(p[1].tasks))

\* The header of the day view (App.tsx:548) rendered for a date.
renderDay(date) ==
    /\ pct' = completion(dayPlanOf(plans, date))
    /\ lastOp' = Op("RENDER", date, "", "")
    /\ UNCHANGED <<tz, plans, history, now, storage, pc, queued, startup,
                   alerted, file>>

\* A collection of one day with n tasks, the first d of them done.
LongDay(n, d) ==
    << [date |-> "2025-09-18", phase |-> PhaseBase, week |-> 1,
        tasks |-> [k \in 1..n |->
                     [id |-> TaskId("2025-09-18", "MOB", ToString(k - 1)),
                      label |-> mobility[1], done |-> k <= d,
                      category |-> "MOB", tips |-> NoTips]],
        notes |-> "", microDone |-> 0, microTarget |-> MicroTargetDefault,
        sleepHours |-> Undefined, hrRest |-> Undefined, bodyMass |-> Undefined,
        napsNote |-> UndefinedText] >>

\* The counts of done tasks a day of n tasks is taken with.
DoneCounts(n) ==
    IF n <= SmallDay THEN 0..n ELSE {0, 1, n \div 2, n - 1, n}

\* The page idle on a collection of one day, as restored from a snapshot.
InitRender ==
    /\ tz \in TimeZones
    /\ \E n \in 0..MaxTasks : \E d \in DoneCounts(n) : plans = LongDay(n, d)
    /\ history = <<>>
    /\ now = 0
    /\ lastOp = NoOp
    /\ storage = [k \in {STORAGE_KEY, HISTORY_KEY} |->
                    IF k = STORAGE_KEY THEN Stored(stringifyPlans(plans))
                    ELSE Stored(stringifyHistory(history))]
    /\ pc = <<>>
    /\ queued = NothingQueued
    /\ startup = storage
    /\ alerted = FALSE
    /\ pct = 0
    /\ file = NoItem

RenderStep == \E date \in DateInputs : renderDay(date)

NextRender == RenderStep

SpecRender == InitRender /\ [][NextRender]_vars

\* ------------------------------------------------------ import of a file
\* What FileReader hands to reader.onload, by what JSON.parse makes of it:
\*   "snapshot"      an object with arrays under `plans` and `history`
\*   "array"         a bare array of DayPlans
\*   "plansOnly"     an object with `plans` and no `history`
\*   "nonArrayPlans" an object whose `plans` is an object, not an array
\*   "garbage"       text JSON.parse throws on
BackupName == "backup.json"
Snapshot(p, h) ==
    [kind |-> "snapshot", name |-> BackupName, plans |-> p, history |-> h]
ArrayDoc(p) ==
    [kind |-> "array", name |-> BackupName, plans |-> p, history |-> <<>>]
PlansOnly(p) ==
    [kind |-> "plansOnly", name |-> BackupName, plans |-> p, history |-> <<>>]
NonArrayPlans(h) ==
    [kind |-> "nonArrayPlans", name |-> BackupName, plans |-> <<>>, history |-> h]
Garbage ==
    [kind |-> "garbage", name |-> BackupName, plans |-> <<>>, history |-> <<>>]

\* The documents a file is taken from.
ImportDocs ==
    { Snapshot(OneDayPlans, <<>>),
      Snapshot(OneDayPlans, OneEntryLog),
      ArrayDoc(OneDayPlans),
      PlansOnly(OneDayPlans),
      NonArrayPlans(OneEntryLog),
      Garbage }

\* a.download of exportJSON
ExportName == "audax_planner_v1_1.json"

\* exportJSON: the file holds JSON.stringify({ plans, history }, null, 2).
\* It reads no clock and sets no state of the page.
exportJSON ==
    /\ Idle
    /\ file' = Stored([plans |-> stringifyPlans(plans),
                       history |-> stringifyHistory(history)])
    /\ lastOp' = Op("EXPORT", "", ExportName, "")
    /\ alerted' = FALSE
    /\ UNCHANGED <<tz, plans, history, now, storage, pc, queued, startup, pct>>

\* The downloaded file as importJSON reads it: JSON.parse gives an object
\* whose `plans` and `history` are arrays.
FileDocs ==
    IF file = NoItem THEN {}
    ELSE { [kind |-> "snapshot", name |-> ExportName,
            plans |-> parsePlans(file[1].plans),
            history |-> parseHistory(file[1].history)] }

\* importJSON that adds the document to what the page holds.
importJSON_merge(doc) ==
    /\ Event(Op("IMPORT", "", doc.name, doc.kind))
    /\ UNCHANGED <<pct, file>>
    /\ alerted' = (doc.kind = "garbage")
    /\ IF doc.kind \in {"snapshot", "array"}
       THEN /\ plans' = plans \o doc.plans
            /\ history' = doc.history \o history
            /\ SaveEffects(TRUE, TRUE)
       ELSE UNCHANGED <<plans, history, storage>>

\* reader.onload of importJSON.  `obj.plans && obj.history` holds for any two
\* objects, arrays or not; an object handed to setPlans, which holds no
\* DayPlan, makes the next render throw at plans.find (App.tsx:377), which
\* takes the page down before any effect runs.
importJSON(doc) ==
    /\ Idle
    /\ now < MaxOps
    /\ now' = now + 1
    /\ lastOp' = Op("IMPORT", "", doc.name, doc.kind)
    /\ UNCHANGED <<tz, queued, startup, pct, file>>
    /\ alerted' = (doc.kind = "garbage")
    /\ pc' = IF doc.kind = "nonArrayPlans" THEN <<"down">> ELSE pc
    /\ IF doc.kind = "snapshot"
       THEN plans' = doc.plans /\ history' = doc.history /\ SaveEffects(TRUE, TRUE)
       ELSE IF doc.kind = "array"
       THEN plans' = doc.plans /\ UNCHANGED history /\ SaveEffects(TRUE, FALSE)
       ELSE IF doc.kind = "nonArrayPlans"
       THEN plans' = <<>> /\ history' = doc.history /\ UNCHANGED storage
       ELSE UNCHANGED <<plans, history, storage>>

ImportStep == \E doc \in ImportDocs \cup FileDocs : importJSON(doc)

NextIO ==
    \/ Next
    \/ ImportStep

SpecIO == Init /\ [][NextIO]_vars

\* ------------------------------------------------ export and import again
\* The page idle after a start on the stored snapshot.
InitFile ==
    /\ tz \in TimeZones
    /\ plans = TwoDayPlans
    /\ history \in StoredLogs
    /\ now = 0
    /\ lastOp = NoOp
    /\ storage = [k \in {STORAGE_KEY, HISTORY_KEY} |->
                    IF k = STORAGE_KEY THEN Stored(stringifyPlans(plans))
                    ELSE Stored(stringifyHistory(history))]
    /\ pc = <<>>
    /\ queued = NothingQueued
    /\ startup = storage
    /\ alerted = FALSE
    /\ pct = 0
    /\ file = NoItem

ExportStep == exportJSON

NextFile ==
    \/ NextIO
    \/ ExportStep

SpecFile == InitFile /\ [][NextFile]_vars

\* ================================================================ claims
StartDay == START \div HoursPerDay
EndDay == RACE \div HoursPerDay

\* The UTC day a yyyy-mm-dd key names (the inverse of IsoOfDay).
DayOfIso(s) == CHOOSE n \in (StartDay - 31)..(EndDay + 31) : IsoOfDay(n) = s

Generated == lastOp = NoOp     \* plans is what generateInitialPlan returned

\* C1: generateInitialPlan returns daysBetween(START,END)+1 = 67 DayPlans
\* whose date keys are exactly 2025-09-18 .. 2025-11-23, each once, in
\* ascending order.
C1_GeneratedDates ==
    Generated =>
        /\ Len(plans) = EndDay - StartDay + 1
        /\ Len(plans) = 67
        /\ \A i \in 1..Len(plans) : plans[i].date = IsoOfDay(StartDay + i - 1)
        /\ plans[1].date = "2025-09-18"
        /\ plans[Len(plans)].date = "2025-11-23"

\* C2: every generated DayPlan has week = floor(daysBetween(START, date)/7)+1
\* and week >= 1; the first day has week 1, the days 14 and 28 days after
\* START have weeks 3 and 5.
C2_WeekOfDate ==
    Generated =>
        /\ \A i \in 1..Len(plans) :
              /\ plans[i].week = (DayOfIso(plans[i].date) - StartDay) \div DaysPerWeek + 1
              /\ plans[i].week >= 1
        /\ plans[1].week = 1
        /\ \A i \in 1..Len(plans) :
              /\ plans[i].date = IsoOfDay(StartDay + 14) => plans[i].week = 3
              /\ plans[i].date = IsoOfDay(StartDay + 28) => plans[i].week = 5

\* C3: phaseName is a step function of week with four values and boundaries
\* at 3/6/8 (1-3 BASE, 4-6 BUILD, 7-8 SPECIFIC, 9 and later TAPER), and every
\* DayPlan's phase is phaseName of its week.
C3_PhaseStep ==
    /\ \A w \in 1..MaxWeek :
          phaseName(w) = CASE w \in {1, 2, 3} -> PhaseBase
                           [] w \in {4, 5, 6} -> PhaseBuild
                           [] w \in {7, 8} -> PhaseSpecific
                           [] OTHER -> PhaseTaper
    /\ Cardinality({PhaseBase, PhaseBuild, PhaseSpecific, PhaseTaper}) = 4
    /\ \A i \in 1..Len(plans) :
          /\ plans[i].phase = phaseName(plans[i].week)
          /\ plans[i].week \in {4, 5, 6} <=> plans[i].phase = PhaseBuild
          /\ plans[i].week \in {7, 8} <=> plans[i].phase = PhaseSpecific
          /\ plans[i].week >= 9 <=> plans[i].phase = PhaseTaper

\* A generated plan with a day in each of the weeks next to a boundary.
C3_Witness ==
    /\ Generated
    /\ \A w \in {3, 4, 6, 7, 8, 9} :
          \E i \in 1..Len(plans) : plans[i].week = w /\ plans[i].phase = phaseName(w)

\* ----------------------------------------------- vocabulary of the steps
\* The call that made the step, and the days it names in the state before.
FromIdx == FindDay(plans, lastOp'.date)
ToIdx == FindDay(plans, lastOp'.to)

IdsOf(tasks) == {tasks[k].id : k \in 1..Len(tasks)}

\* The call is a move that has everything it needs: distinct dates, both in
\* the collection and, for moveTask, the id on the source day.
MovesTask ==
    /\ lastOp'.op = "MOVE_TASK"
    /\ lastOp'.date # lastOp'.to
    /\ FromIdx # 0 /\ ToIdx # 0
    /\ lastOp'.id \in IdsOf(plans[FromIdx].tasks)

MovesDay ==
    /\ lastOp'.op = "MOVE_DAY"
    /\ lastOp'.date # lastOp'.to
    /\ FromIdx # 0 /\ ToIdx # 0

\* s with its k-th element taken out.
RemoveAt(s, k) == SubSeq(s, 1, k - 1) \o SubSeq(s, k + 1, Len(s))

\* Two tasks that differ at most in their id.
SameButId(t, u) ==
    /\ t.label = u.label /\ t.category = u.category
    /\ t.tips = u.tips /\ t.done = u.done

\* Two DayPlans that differ at most in their task lists.
SameButTasks(p, q) == [p EXCEPT !.tasks = <<>>] = [q EXCEPT !.tasks = <<>>]

\* h is what is left of g when entries are taken off its front.
IsSuffix(h, g) ==
    /\ Len(h) <= Len(g)
    /\ SubSeq(g, Len(g) - Len(h) + 1, Len(g)) = h

\* C4: moveTask(a, b, id) for distinct dates a, b of the collection and an id
\* on a's list: no task with the id stays on a's list, b's list is its old
\* list followed by one new task, which has another id and the moved task's
\* label, category, tips and done; every other day and task is unchanged.
C4_MoveTask ==
    [][ MovesTask =>
          LET a == plans[FromIdx]
              b == plans[ToIdx]
              k == FindTask(a.tasks, lastOp'.id)
              new == plans'[ToIdx].tasks[Len(plans'[ToIdx].tasks)]
          IN  /\ Len(plans') = Len(plans)
              /\ \A i \in 1..Len(plans) :
                    i \notin {FromIdx, ToIdx} => plans'[i] = plans[i]
              /\ SameButTasks(plans'[FromIdx], a)
              /\ SameButTasks(plans'[ToIdx], b)
              /\ lastOp'.id \notin IdsOf(plans'[FromIdx].tasks)
              /\ plans'[FromIdx].tasks = RemoveAt(a.tasks, k)
              /\ Len(plans'[ToIdx].tasks) = Len(b.tasks) + 1
              /\ SubSeq(plans'[ToIdx].tasks, 1, Len(b.tasks)) = b.tasks
              /\ new.id # lastOp'.id
              /\ SameButId(new, a.tasks[k])
      ]_vars

\* C4 where it holds: the same, for an id that one task of a's list carries.
C4_MoveTaskOfUniqueId ==
    [][ ( /\ MovesTask
          /\ Cardinality({k \in 1..Len(plans[FromIdx].tasks) :
                             plans[FromIdx].tasks[k].id = lastOp'.id}) = 1 ) =>
          LET a == plans[FromIdx]
              b == plans[ToIdx]
              k == FindTask(a.tasks, lastOp'.id)
              new == plans'[ToIdx].tasks[Len(plans'[ToIdx].tasks)]
          IN  /\ \A i \in 1..Len(plans) :
                    i \notin {FromIdx, ToIdx} => plans'[i] = plans[i]
              /\ plans'[FromIdx] = [a EXCEPT !.tasks = RemoveAt(a.tasks, k)]
              /\ SameButTasks(plans'[ToIdx], b)
              /\ Len(plans'[ToIdx].tasks) = Len(b.tasks) + 1
              /\ SubSeq(plans'[ToIdx].tasks, 1, Len(b.tasks)) = b.tasks
              /\ new.id # lastOp'.id
              /\ SameButId(new, a.tasks[k])
      ]_vars

\* C5: moveWholeDay(a, b) for distinct dates of the collection: a's DayPlan
\* stays, with an empty task list; b's list is its old list followed by a's
\* old tasks in their order, each with its label, category, tips and done;
\* one MOVE_DAY entry is appended, however many tasks moved.
C5_MoveWholeDay ==
    [][ MovesDay =>
          LET a == plans[FromIdx]
              b == plans[ToIdx]
              n == Len(b.tasks)
          IN  /\ Len(plans') = Len(plans)
              /\ plans'[FromIdx].date = lastOp'.date
              /\ plans'[FromIdx].tasks = <<>>
              /\ SameButTasks(plans'[FromIdx], a)
              /\ Len(plans'[ToIdx].tasks) = n + Len(a.tasks)
              /\ SubSeq(plans'[ToIdx].tasks, 1, n) = b.tasks
              /\ \A k \in 1..Len(a.tasks) :
                    SameButId(plans'[ToIdx].tasks[n + k], a.tasks[k])
              /\ Len(history') = Len(history) + 1
              /\ Tail(history') = history
              /\ Head(history').action = "MOVE_DAY"
      ]_vars

\* A whole day was moved onto a day that had tasks, a done task among the
\* moved ones, after an earlier logged call.
C5_Witness ==
    /\ lastOp.op = "MOVE_DAY"
    /\ Len(history) = 2
    /\ history[1].action = "MOVE_DAY" /\ history[2].action = "CHECK"
    /\ history[2].date = lastOp.date
    /\ plans[FindDay(plans, lastOp.date)].tasks = <<>>
    /\ Len(plans[FindDay(plans, lastOp.to)].tasks) > 20
    /\ \E k \in 1..Len(plans[FindDay(plans, lastOp.to)].tasks) :
          plans[FindDay(plans, lastOp.to)].tasks[k].done

\* C6: moveTask and moveWholeDay change nothing (neither the collection nor
\* the log) when the two dates are equal or one of them is not in the
\* collection, and moveTask changes nothing when the id is not on the
\* source day's list.
C6_NoOpMoves ==
    [][ ( \/ /\ lastOp'.op \in {"MOVE_TASK", "MOVE_DAY"}
             /\ (lastOp'.date = lastOp'.to \/ FromIdx = 0 \/ ToIdx = 0)
          \/ /\ lastOp'.op = "MOVE_TASK"
             /\ (FromIdx = 0 \/ lastOp'.id \notin IdsOf(plans[FromIdx].tasks)) )
        => (plans' = plans /\ history' = history)
      ]_vars

\* moveTask was called with equal dates for a task that is on the day, after
\* an earlier logged call.
C6_Witness ==
    /\ lastOp.op = "MOVE_TASK"
    /\ lastOp.date = lastOp.to
    /\ FindDay(plans, lastOp.date) # 0
    /\ lastOp.id \in IdsOf(plans[FindDay(plans, lastOp.date)].tasks)
    /\ Len(history) = 1
    /\ history[1].action = "CHECK"

\* C7: toggleTask(date, id, newDone) changes nothing but the done flag of the
\* tasks with the id on the day keyed by date; with no such task, or no such
\* day, the collection is unchanged; in every case one entry, CHECK if newDone
\* else UNCHECK, is appended.
C7_Toggle ==
    [][ lastOp'.op \in {"CHECK", "UNCHECK"} =>
          /\ Len(plans') = Len(plans)
          /\ \A i \in 1..Len(plans) :
                IF plans[i].date # lastOp'.date THEN plans'[i] = plans[i]
                ELSE /\ SameButTasks(plans'[i], plans[i])
                     /\ Len(plans'[i].tasks) = Len(plans[i].tasks)
                     /\ \A k \in 1..Len(plans[i].tasks) :
                           LET t == plans[i].tasks[k]
                               u == plans'[i].tasks[k]
                           IN  /\ [u EXCEPT !.done = t.done] = t
                               /\ u.done = IF t.id = lastOp'.id
                                           THEN lastOp'.op = "CHECK"
                                           ELSE t.done
          /\ (FromIdx = 0 \/ lastOp'.id \notin IdsOf(plans[FromIdx].tasks))
                => plans' = plans
          /\ Len(history') = Len(history) + 1
          /\ Tail(history') = history
          /\ Head(history').action = lastOp'.op
          /\ Head(history').date = lastOp'.date
      ]_vars

\* A task of the day was checked, then toggleTask was called on the same day
\* with an id no task has: the done task is still done, both calls are logged.
C7_Witness ==
    /\ lastOp.op = "UNCHECK"
    /\ lastOp.id = BogusId
    /\ FindDay(plans, lastOp.date) # 0
    /\ Len(history) = 2
    /\ history[1].action = "UNCHECK" /\ history[1].detail = BogusId
    /\ history[2].action = "CHECK" /\ history[2].date = lastOp.date
    /\ \E k \in 1..Len(plans[FindDay(plans, lastOp.date)].tasks) :
          plans[FindDay(plans, lastOp.date)].tasks[k].done

\* C8: the log is append-only and newest-first: in every step of toggleTask,
\* resetDay, deleteTask, moveTask, moveWholeDay, a metric edit or an import,
\* every step but the explicit clear, the log before is a suffix of the log
\* after.
C8_AppendOnly ==
    [][ lastOp'.op # "CLEAR" => IsSuffix(history, history') ]_vars

\* C8 as amended: the same for every step but the explicit clear and the
\* import of a snapshot document, which puts the document's log in place of
\* the current one.
C8_AppendOnlyButSnapshotImport ==
    [][ ( /\ lastOp'.op # "CLEAR"
          /\ ~(lastOp'.op = "IMPORT" /\ lastOp'.id \in {"snapshot", "nonArrayPlans"}) )
        => /\ IsSuffix(history, history')
           /\ history' = history \/ Tail(history') = history
      ]_vars

\* Two logged calls: the later one's entry is in front of the earlier one's.
C8_Witness ==
    /\ lastOp.op = "RESET_DAY"
    /\ Len(history) = 2
    /\ history[1].action = "RESET_DAY"
    /\ history[2].action # "RESET_DAY"
    /\ history[1].ts > history[2].ts

\* The step appends one entry with the tag and the date.
Logged(tag, date) ==
    /\ Len(history') = Len(history) + 1
    /\ Head(history').action = tag
    /\ Head(history').date = date

\* C9: every call of toggleTask, resetDay and deleteTask and every moveTask
\* and moveWholeDay that moves lengthens the log by one entry with the
\* matching tag and the affected day's key (the destination's, for a move);
\* metric edits and moves that do not move leave the log's length unchanged.
C9_OneEntryPerMutation ==
    [][ /\ lastOp'.op \in {"CHECK", "UNCHECK", "RESET_DAY", "DELETE_TASK"}
            => Logged(lastOp'.op, lastOp'.date)
        /\ MovesTask => Logged("MOVE_TASK", lastOp'.to)
        /\ MovesDay => Logged("MOVE_DAY", lastOp'.to)
        /\ (lastOp'.op \in {"MOVE_TASK", "MOVE_DAY"} /\ ~MovesTask /\ ~MovesDay)
            => Len(history') = Len(history)
        /\ lastOp'.op \in {"SET_FIELD", "MICRO"}
            => Len(history') = Len(history)
      ]_vars

\* A task was moved and then a task was deleted: two entries, one each.
C9_Witness ==
    /\ lastOp.op = "DELETE_TASK"
    /\ Len(history) = 2
    /\ history[1].action = "DELETE_TASK" /\ history[1].date = lastOp.date
    /\ history[2].action = "MOVE_TASK"

RenderedTasks ==
    IF dayPlanOf(plans, lastOp.date) = <<>> THEN <<>>
    ELSE dayPlanOf(plans, lastOp.date)[1].tasks
DoneOf(tasks) == Cardinality({k \in 1..Len(tasks) : tasks[k].done})

\* pct is the integer nearest to 100 * d / n, a half going up.
IsRounded(d, n) ==
    /\ 2 * pct * n - n <= 200 * d
    /\ 200 * d < 2 * pct * n + n

\* C11: completion gives 0 for a day that is not found or has no tasks and
\* round(100 * done / total) otherwise; the result is an integer in 0..100,
\* equal to 100 exactly when all tasks of a non-empty day are done and 0 when
\* none is.
C11_Completion ==
    lastOp.op = "RENDER" =>
        LET n == Len(RenderedTasks)
            d == DoneOf(RenderedTasks)
        IN  /\ pct \in 0..100
            /\ n = 0 => pct = 0
            /\ n > 0 => /\ IsRounded(d, n)
                        /\ pct = 100 <=> d = n
                        /\ d = 0 => pct = 0

\* C11 as amended: the same, but 100 is shown exactly when all tasks are done
\* only for days of fewer than 200 tasks; from 200 tasks on a day with one
\* task left open rounds to 100 too.
C11_CompletionRounded ==
    lastOp.op = "RENDER" =>
        LET n == Len(RenderedTasks)
            d == DoneOf(RenderedTasks)
        IN  /\ pct \in 0..100
            /\ n = 0 => pct = 0
            /\ n > 0 => /\ IsRounded(d, n)
                        /\ d = n => pct = 100
                        /\ (n < 200 /\ pct = 100) => d = n
                        /\ d = 0 => pct = 0

\* A day of 200 tasks with one left open was rendered, and 100 was shown.
C11_Witness ==
    /\ lastOp.op = "RENDER"
    /\ Len(RenderedTasks) = 200
    /\ DoneOf(RenderedTasks) = 199
    /\ pct = 100
\* ------------------------------------------------------------------ C12
\* The step imports the file exportJSON downloaded.
ImportsExport == lastOp'.op = "IMPORT" /\ lastOp'.to = ExportName

\* C12: export followed by import is the identity on state: the file read
\* back gives the plans and the history it was written from, in their order,
\* and importing it puts exactly the file's plans and history in place of
\* what the page holds, whatever that is.
C12_ExportImport ==
    [][ /\ lastOp'.op = "EXPORT"
            => /\ parsePlans(file'[1].plans) = plans
               /\ parseHistory(file'[1].history) = history
        /\ ImportsExport
            => /\ plans' = parsePlans(file[1].plans)
               /\ history' = parseHistory(file[1].history)
      ]_vars

\* The exported file was imported over a page that a later call had changed:
\* the log is the exported one again, and the day without tasks is there.
C12_Witness ==
    /\ lastOp.op = "IMPORT" /\ lastOp.to = ExportName
    /\ now = 2
    /\ file # NoItem
    /\ plans = parsePlans(file[1].plans)
    /\ history = <<>>
    /\ \E i \in 1..Len(plans) : plans[i].tasks = <<>>
    /\ \E i \in 1..Len(plans) : \E k \in 1..Len(plans[i].tasks) :
          plans[i].tasks[k].tips # NoTips

\* ------------------------------------------------------------------ C13
\* C13: importing a document that is not a valid snapshot, text that does
\* not parse or JSON that is neither an object with arrays `plans` and
\* `history` nor an array, is reported to the user and leaves plans and
\* history as they were.
C13_MalformedImport ==
    [][ (lastOp'.op = "IMPORT" /\ lastOp'.id \notin {"snapshot", "array"})
            => /\ alerted'
               /\ plans' = plans
               /\ history' = history
      ]_vars
\* ------------------------------------------------------------------ C14
\* C14: with no snapshot under STORAGE_KEY at startup the plans become
\* generateInitialPlan(); with one, the plans (and the history, from
\* HISTORY_KEY) become the snapshot and the generated plan is not installed;
\* and whenever every pending update and effect has run, after startup and
\* after every mutation, STORAGE_KEY holds the serialized plans and
\* HISTORY_KEY the serialized history.
C14_SeedAndPersist ==
    /\ (Idle /\ lastOp = Mounted) =>
          /\ plans = IF startup[STORAGE_KEY] = NoItem
                     THEN generateInitialPlan(tz)
                     ELSE parsePlans(startup[STORAGE_KEY][1])
          /\ history = IF startup[HISTORY_KEY] = NoItem
                       THEN <<>>
                       ELSE parseHistory(startup[HISTORY_KEY][1])
    /\ Idle =>
          /\ storage[STORAGE_KEY] = Stored(stringifyPlans(plans))
          /\ storage[HISTORY_KEY] = Stored(stringifyHistory(history))

\* A page started on a stored snapshot was changed by two calls, the later
\* one an edit of a metric, and is idle.
C14_Witness ==
    /\ Idle
    /\ startup[STORAGE_KEY] # NoItem /\ startup[HISTORY_KEY] # NoItem
    /\ now = 2
    /\ lastOp.op = "SET_FIELD"
    /\ Len(history) > Len(startup[HISTORY_KEY][1])
    /\ storage # startup

\* ------------------------------------------------------------------ C15
\* The number of tasks of a list that carry the id.
Carriers(tasks, id) == Cardinality({k \in 1..Len(tasks) : tasks[k].id = id})

\* C15: the generated plan gives the k-th pushed task of a day (k from 0,
\* counted across the categories) the id {date}_{category}_{k}; and in every
\* state reached by toggleTask, resetDay, deleteTask, moveTask and
\* moveWholeDay no day's list holds two tasks with the same id.
C15_UniqueIds ==
    /\ Generated =>
          \A i \in 1..Len(plans) :
             LET p == plans[i]
                 \* tasks pushed before the first one kept: GYM tasks that the
                 \* race day's filter took out after the ids were given
                 filtered == IF \E k \in 1..Len(p.tasks) : p.tasks[k].category = "GYM"
                             THEN {0} ELSE 0..Len(p.tasks)
             IN  \E g \in filtered :
                    \A k \in 1..Len(p.tasks) :
                       p.tasks[k].id =
                          TaskId(p.date, p.tasks[k].category, ToString(g + k - 1))
    /\ \A i \in 1..Len(plans) :
          \A k \in 1..Len(plans[i].tasks) :
             Carriers(plans[i].tasks, plans[i].tasks[k].id) = 1

\* ------------------------------------------------------------------ C16
\* The number of tasks over all days.
RECURSIVE TotalTasks(_)
TotalTasks(ps) ==
    IF ps = <<>> THEN 0 ELSE Len(ps[1].tasks) + TotalTasks(Tail(ps))

\* C16: every call of toggleTask, resetDay, moveTask and moveWholeDay leaves
\* the number of tasks over all days as it was, and a deleteTask that names
\* a task of the day takes exactly one off it (none when it names no task):
\* the total is the initial total less the deletes of existing tasks.
C16_TasksConserved ==
    [][ lastOp'.op \in {"CHECK", "UNCHECK", "RESET_DAY", "DELETE_TASK",
                        "MOVE_TASK", "MOVE_DAY"} =>
          TotalTasks(plans') =
             TotalTasks(plans)
               - IF /\ lastOp'.op = "DELETE_TASK"
                    /\ FromIdx # 0
                    /\ lastOp'.id \in IdsOf(plans[FromIdx].tasks)
                 THEN 1 ELSE 0
      ]_vars

\* ------------------------------------------------------------------ C17
\* C17: with snapshots under both keys at startup, in every state from the
\* mount to the first user mutation both keys hold what they held at
\* startup.
C17_SnapshotKept ==
    ( /\ startup[STORAGE_KEY] # NoItem
      /\ startup[HISTORY_KEY] # NoItem
      /\ lastOp = Mounted )
        => storage = startup
====
